---- MODULE Spec2Model ----
(***************************************************************************)
(* A model of yajnir: the runtime lifecycle (src/src/jvm.rs), the          *)
(* function-table dispatch (src/src/macros.rs) and the reference ownership *)
(* types (src/src/jref.rs).                                                *)
(*                                                                         *)
(* The foreign runtime (jni_sys) is the environment.  It keeps the list of *)
(* created VMs of the process; other native code of the process may create *)
(* and destroy VMs of its own (ForeignSpawn, ForeignGone), and every       *)
(* foreign call may answer with any raw result code.                       *)
(***************************************************************************)
EXTENDS Integers, Sequences, FiniteSets, TLC

(* ------------------------------ bounds -------------------------------- *)
\* VM identities the foreign runtime can hand out over a run
MaxVMs == 3
\* created_jvms lookups nested inside one another (JNI_EEXIST from a probe)
MaxNest == 1
\* length of the option lists handed to create
MaxOpts == 2
\* threads holding references
MaxThreads == 2
\* Arc<RawJObject> cells (GlobalRef values constructed) over a run
MaxCells == 2
\* GlobalObj values alive per cell
MaxObjs == 2
\* default options the foreign runtime may have (more than n_options)
MaxDefaults == 66

\* calls of T::descriptors over a run
MaxAsks == 3

\* handles and references alive at once in the thread model
MaxVals == 2

\* characters of a class name given to _native_name
MaxLen == 2

\* entries of a VmOptions option list
MaxPush == 3

(* ------------------------- program constants -------------------------- *)
JNI_OK == 0
JNI_ERR == -1
JNI_EDETACHED == -2
JNI_EVERSION == -3
JNI_ENOMEM == -4
JNI_EEXIST == -5
JNI_EINVAL == -6
\* std::ptr::null_mut()
NULL == 0

\* raw result codes a foreign call may answer with: JNI_OK, the six error
\* constants, and two codes that are no known constant
ErrorCodes == {JNI_ERR, JNI_EDETACHED, JNI_EVERSION, JNI_ENOMEM, JNI_EEXIST, JNI_EINVAL}
Codes == {JNI_OK} \cup ErrorCodes \cup {1, -7}

VmIds == 1..MaxVMs

Range(s) == {s[i] : i \in 1..Len(s)}

Remove(s, x) == SelectSeq(s, LAMBDA y : y # x)

(* ------------------------------- state -------------------------------- *)
VARIABLES
    vms,        \* foreign: the created VMs of the process, in its order
    dead,       \* foreign: the VMs that were destroyed
    table,      \* foreign: whether the function table's DestroyJavaVM slot is populated
    held,       \* the Runtime Handles a successful create returned
    cur,        \* the operation in progress
    res,        \* the outcome of the last operation
    trace,      \* the foreign calls and slot lookups of that operation
    probe,      \* the last JNI_GetCreatedJavaVMs call of that operation
    owners,     \* the GlobalRef and GlobalObj values alive
    strong,     \* per Arc<RawJObject> cell, its strong count
    dstrong,    \* the strong count of the Arc<T::IDs> descriptor
    made,       \* the Arc<RawJObject> cells made so far
    defaults,   \* foreign: the default options of the runtime
    fargs,      \* foreign: the version word and ignoreUnrecognized it writes
    opts,       \* the VmOptions value default_args returned last
    built,      \* the T::IDs descriptor instances the provider has built
    got,        \* per thread, the descriptor instance it holds (0: none)
    vals        \* the handles and references of the process, and their threads

lifevars == <<vms, dead, table, held>>

refvars == <<owners, strong, dstrong, made>>

argvars == <<defaults, fargs, opts>>

auxvars == <<built, got, vals>>

vars == <<vms, dead, table, held, cur, res, trace, probe,
          owners, strong, dstrong, made, defaults, fargs, opts, built, got, vals>>

(* ------------------------------ results ------------------------------- *)
\* A VmError.  chain is the path of variants from the outside in, so that
\* VMExists(Err(Unknown)) is <<"VMExists", "Unknown">>; vm is the JavaVM of
\* an innermost VMExists(Ok(vm)); name is MissingFunction's slot name.
NoErr == [chain |-> <<>>, vm |-> NULL, name |-> ""]

VmError(tag) == [chain |-> <<tag>>, vm |-> NULL, name |-> ""]

MissingFunction(n) == [chain |-> <<"MissingFunction">>, vm |-> NULL, name |-> n]

\* A Result (or a panic / a crash of the process).  val holds the Ok payload
\* as a sequence: the code for assert_ok, the JavaVM for create, the list
\* for created_jvms, the body's value for create_with.  body is the
\* Option<O> of create_with's error pair (0 is None).
Ok(v) == [kind |-> "Ok", val |-> v, err |-> NoErr, body |-> 0]

Err(e) == [kind |-> "Err", val |-> <<>>, err |-> e, body |-> 0]

Panic == [kind |-> "Panic", val |-> <<>>, err |-> NoErr, body |-> 0]

Crash == [kind |-> "Crash", val |-> <<>>, err |-> NoErr, body |-> 0]

NoResult == [kind |-> "None", val |-> <<>>, err |-> NoErr, body |-> 0]

(* ---------------------------- error mapper ---------------------------- *)
\* a variant of the JNI_EEXIST arm that carries the newest VM of the list
VMExistsOfNewest(lookup) ==
    IF lookup.kind \in {"Panic", "Crash"} THEN lookup
    ELSE IF lookup.kind = "Err"
    THEN Err([chain |-> <<"VMExists">> \o lookup.err.chain,
              vm |-> lookup.err.vm, name |-> lookup.err.name])
    ELSE IF lookup.val = <<>> THEN Panic
    ELSE Err([chain |-> <<"VMExists">>, vm |-> lookup.val[Len(lookup.val)], name |-> ""])

\* the JNI_EEXIST arm of assert_ok: lookup is what created_jvms() gave
VMExistsOf(lookup) ==
    IF lookup.kind \in {"Panic", "Crash"} THEN lookup
    ELSE IF lookup.kind = "Err"
    THEN Err([chain |-> <<"VMExists">> \o lookup.err.chain,
              vm |-> lookup.err.vm, name |-> lookup.err.name])
    ELSE IF lookup.val = <<>> THEN Panic
    ELSE Err([chain |-> <<"VMExists">>, vm |-> lookup.val[1], name |-> ""])

\* a variant of assert_ok that takes every nonzero code for an error
assert_ok_zero_only(func_result, lookup) ==
    CASE func_result = JNI_OK -> Ok(<<func_result>>)
      [] func_result = JNI_EDETACHED -> Err(VmError("Detached"))
      [] func_result = JNI_EVERSION -> Err(VmError("BadVersion"))
      [] func_result = JNI_ENOMEM -> Err(VmError("NotEnoughMemory"))
      [] func_result = JNI_EEXIST -> VMExistsOf(lookup)
      [] func_result = JNI_EINVAL -> Err(VmError("InvalidArguments"))
      [] OTHER -> Err(VmError("Unknown"))

\* VmError::assert_ok(func_result); lookup is read by the JNI_EEXIST arm only
assert_ok(func_result, lookup) ==
    CASE func_result = JNI_ERR -> Err(VmError("Unknown"))
      [] func_result = JNI_EDETACHED -> Err(VmError("Detached"))
      [] func_result = JNI_EVERSION -> Err(VmError("BadVersion"))
      [] func_result = JNI_ENOMEM -> Err(VmError("NotEnoughMemory"))
      [] func_result = JNI_EEXIST -> VMExistsOf(lookup)
      [] func_result = JNI_EINVAL -> Err(VmError("InvalidArguments"))
      [] OTHER -> Ok(<<func_result>>)

\* assert_eq!(res, 0, ...) after `assert_ok(..)?`
ExpectZero(r) == IF r.kind = "Ok" /\ r.val # <<JNI_OK>> THEN Panic ELSE r

(* --------------------------- created_jvms ----------------------------- *)
\* the foreign JNI_GetCreatedJavaVMs(buf, bufLen, &nVMs) answering JNI_OK:
\* it writes the first bufLen created VMs and leaves the rest of buf alone
\* (nVMs is Len(list), the true count)
JNI_GetCreatedJavaVMs(buf, list) ==
    [i \in 1..Len(buf) |-> IF i <= Len(list) THEN list[i] ELSE buf[i]]

\* buf.resize(true_len, null_mut())
Resize(buf, n) ==
    IF n <= Len(buf) THEN SubSeq(buf, 1, n)
    ELSE buf \o [i \in 1..(n - Len(buf)) |-> NULL]

\* buf.truncate(true_len)
Truncate(buf, n) == IF n < Len(buf) THEN SubSeq(buf, 1, n) ELSE buf

\* a variant of the loop's turn that regrows the buffer by one entry
LoopTurnGrowByOne(buf, code, list) ==
    LET r == ExpectZero(assert_ok(code, NoResult))
        written == JNI_GetCreatedJavaVMs(buf, list)
        true_len == Len(list)
        buf_len == Len(buf)
        cut == Truncate(written, true_len)
    IN  IF r.kind # "Ok" THEN [retry |-> FALSE, buf |-> buf, result |-> r]
        ELSE IF true_len > buf_len
        THEN [retry |-> TRUE, buf |-> Resize(written, buf_len + 1), result |-> NoResult]
        ELSE [retry |-> FALSE, buf |-> cut,
              result |-> IF \E i \in 1..Len(cut) : cut[i] = NULL THEN Panic ELSE Ok(cut)]

\* a variant of the loop's turn that trusts its first buffer: it returns what
\* the probe wrote, without regrowing and probing again
LoopTurnFirstGuess(buf, code, list) ==
    LET r == ExpectZero(assert_ok(code, NoResult))
        written == JNI_GetCreatedJavaVMs(buf, list)
        cut == Truncate(written, Len(list))
    IN  IF r.kind # "Ok" THEN [retry |-> FALSE, buf |-> buf, result |-> r]
        ELSE [retry |-> FALSE, buf |-> cut,
              result |-> IF \E i \in 1..Len(cut) : cut[i] = NULL THEN Panic ELSE Ok(cut)]

\* One turn of created_jvms' loop, the foreign probe having answered `code`
\* (no JNI_EEXIST, see ProbeStep) while `list` were the created VMs:
\* retry with a regrown buffer, or return.
LoopTurn(buf, code, list) ==
    LET r == ExpectZero(assert_ok(code, NoResult))
        written == JNI_GetCreatedJavaVMs(buf, list)
        true_len == Len(list)
        buf_len == Len(buf)
        cut == Truncate(written, true_len)
    IN  IF r.kind # "Ok" THEN [retry |-> FALSE, buf |-> buf, result |-> r]
        ELSE IF true_len > buf_len
        THEN [retry |-> TRUE, buf |-> Resize(written, true_len), result |-> NoResult]
        ELSE [retry |-> FALSE, buf |-> cut,
              result |-> IF \E i \in 1..Len(cut) : cut[i] = NULL THEN Panic ELSE Ok(cut)]

\* The callers of a finished created_jvms, innermost first: each is an
\* assert_ok(JNI_EEXIST) whose caller returns its Err through `?`.
RECURSIVE Propagate(_, _)
Propagate(n, r) == IF n = 0 THEN r ELSE Propagate(n - 1, assert_ok(JNI_EEXIST, r))

(* ------------------------------- create ------------------------------- *)
\* A Rust string is the sequence of its characters.
S_vfprintf == <<"v", "f", "p", "r", "i", "n", "t", "f">>

S_exit == <<"e", "x", "i", "t">>

S_abort == <<"a", "b", "o", "r", "t">>

S_Xrs == <<"-", "X", "r", "s">>

OptionStrings == {S_vfprintf, S_exit, S_abort, S_Xrs}

OptionLists == UNION {[1..n -> OptionStrings] : n \in 0..MaxOpts}

\* a variant of create's checks without the one for `abort`
RejectedNoAbort(options) ==
    \/ \E i \in 1..Len(options) : options[i] = S_vfprintf
    \/ \E i \in 1..Len(options) : options[i] = S_exit

\* the three `if opts.options.iter().any(..) { panic!(..) }` of create
Rejected(options) ==
    \/ \E i \in 1..Len(options) : options[i] = S_vfprintf
    \/ \E i \in 1..Len(options) : options[i] = S_exit
    \/ \E i \in 1..Len(options) : options[i] = S_abort

\* the lifecycle state of the runtime instance behind a handle
Lifecycle(v) ==
    IF v \in dead THEN "Destroyed"
    ELSE IF v \in Range(vms) THEN "Created"
    ELSE "Uninitialized"

Used == Range(vms) \cup dead

FreshId == IF Used = {} THEN 1 ELSE 1 + CHOOSE m \in Used : \A x \in Used : x <= m

\* the codes the foreign JNI_CreateJavaVM may answer with: JNI_EEXIST while
\* a VM is created, and otherwise JNI_OK (with a new VM) or an error
JNI_CreateJavaVM_codes ==
    IF vms # <<>> THEN {JNI_EEXIST}
    ELSE IF FreshId \in VmIds THEN Codes \ {JNI_EEXIST}
    ELSE Codes \ {JNI_OK, JNI_EEXIST}

(* ------------------------------ destroy ------------------------------- *)
\* a variant of the slot read that takes the slot for populated
SlotAssumed(h, ub) == TRUE

\* java_vm_method!(jvm, DestroyJavaVM): the slot read through the handle.
\* Behind a destroyed VM the read is of freed memory: either answer (ub).
SlotPopulated(h, ub) == IF h \in dead THEN ub ELSE table

\* what the foreign DestroyJavaVM may do: answer a code, or, on a destroyed
\* VM (undefined behaviour), bring the process down
DestroyJavaVM_answers(h) ==
    {[crash |-> FALSE, code |-> c] : c \in Codes}
    \cup (IF h \in dead THEN {[crash |-> TRUE, code |-> JNI_ERR]} ELSE {})

\* JavaVM::destroy once the foreign call answered (no JNI_EEXIST)
destroy(ans) ==
    IF ans.crash THEN Crash
    ELSE LET r == ExpectZero(assert_ok(ans.code, NoResult))
         IN  IF r.kind = "Ok" THEN Ok(<<>>) ELSE r

(* ---------------------------- create_with ----------------------------- *)
BodyVals == {7, 8}

\* create_with's `.map_err(|e| (e, None))?`
CwCreateFailed(r) == IF r.kind = "Err" THEN [r EXCEPT !.body = 0] ELSE r

\* a variant of create_with's match that drops the body's result on Err
CwDestroyedAlone(r, bodyval) ==
    IF r.kind = "Ok" THEN Ok(<<bodyval>>) ELSE r

\* create_with's `match jvm.destroy()`
CwDestroyed(r, bodyval) ==
    IF r.kind = "Ok" THEN Ok(<<bodyval>>)
    ELSE IF r.kind = "Err" THEN [r EXCEPT !.body = bodyval]
    ELSE r

Idle ==
    [op |-> "idle", stage |-> "", pc |-> "idle", depth |-> 0, buf |-> <<>>,
     arg |-> <<>>, h |-> NULL, body |-> 0, was |-> ""]

\* the outcome of call c: its result r, with what the call was made on
Outcome(c, r) == [op |-> c.op, arg |-> c.arg, was |-> c.was, ret |-> c.body] @@ r

Returned == [Idle EXCEPT !.pc = "done"]

NoProbe == [bufLen |-> 0, trueLen |-> 0, seen |-> <<>>, n |-> 0, code |-> JNI_OK]

Cells == 1..MaxCells

Threads == 1..MaxThreads

NoOpts == [version |-> [major |-> 0, minor |-> 0], options |-> <<>>,
           ignore_unrecognized |-> FALSE]

\* no reference was made
NoRefs ==
    /\ owners = {}
    /\ strong = [c \in Cells |-> 0]
    /\ dstrong = 0
    /\ made = 0

\* default_args was not called
NoArgs ==
    /\ defaults = <<>>
    /\ fargs = [version |-> 0, ignoreUnrecognized |-> 0]
    /\ opts = NoOpts

NoAux ==
    /\ built = 0
    /\ got = [t \in Threads |-> 0]
    /\ vals = {}

Init ==
    /\ vms = <<>>
    /\ dead = {}
    /\ table \in BOOLEAN
    /\ held = {}
    /\ cur = Idle
    /\ res = Outcome(Idle, NoResult)
    /\ trace = <<>>
    /\ probe = NoProbe
    /\ NoRefs
    /\ NoArgs
    /\ NoAux


Call(op, stage, arg, h, was) ==
    [op |-> op, stage |-> stage, pc |-> "", depth |-> 0, buf |-> <<>>,
     arg |-> arg, h |-> h, body |-> 0, was |-> was]

\* a created_jvms frame entered from the running call
Lookup(c) == [c EXCEPT !.pc = "probe", !.depth = @ + 1, !.buf = <<NULL>>]

\* the result of the whole call, the innermost created_jvms having given r
Unwound(c, r) ==
    LET u == Propagate(IF c.op = "created_jvms" THEN c.depth - 1 ELSE c.depth, r)
    IN  CASE c.op = "create_with" /\ c.stage = "create" -> CwCreateFailed(u)
          [] c.op = "create_with" /\ c.stage = "destroy" -> CwDestroyed(u, c.body)
          [] OTHER -> u

\* the call returns (or panics, or the process dies) with r
Finish(c, r) ==
    /\ cur' = Returned
    /\ res' = Outcome(c, Unwound(c, r))

Enter(c) ==
    /\ cur' = c
    /\ res' = Outcome(c, NoResult)

\* JavaVM::created_jvms(), up to its first probe
CreatedJvms ==
    /\ UNCHANGED <<refvars, argvars, auxvars>>
    /\ cur = Idle
    /\ Enter(Lookup(Call("created_jvms", "", <<>>, NULL, "")))
    /\ trace' = <<>>
    /\ probe' = NoProbe
    /\ UNCHANGED <<vms, dead, table, held>>

\* one foreign probe of a created_jvms frame and the loop's turn after it
ProbeStep ==
    /\ UNCHANGED <<refvars, argvars, auxvars>>
    /\ cur.pc = "probe"
    /\ \E code \in Codes :
        /\ code = JNI_EEXIST => cur.depth <= MaxNest
        /\ trace' = Append(trace, "JNI_GetCreatedJavaVMs")
        /\ probe' = [bufLen |-> Len(cur.buf), trueLen |-> Len(vms), seen |-> vms,
                     n |-> probe.n + 1, code |-> code]
        /\ IF code = JNI_EEXIST
           THEN /\ cur' = Lookup(cur)
                /\ UNCHANGED res
           ELSE LET t == LoopTurn(cur.buf, code, vms)
                IN  IF t.retry
                    THEN /\ cur' = [cur EXCEPT !.buf = t.buf]
                         /\ UNCHANGED res
                    ELSE Finish(cur, t.result)
    /\ UNCHANGED <<vms, dead, table, held>>

\* VmError::assert_ok(code), called by the application
AssertOk ==
    /\ UNCHANGED <<refvars, argvars, auxvars>>
    /\ cur = Idle
    /\ trace' = <<>>
    /\ probe' = NoProbe
    /\ UNCHANGED <<vms, dead, table, held>>
    /\ \E code \in Codes :
        LET c == Call("assert_ok", "", <<code>>, NULL, "")
        IN  IF code = JNI_EEXIST THEN Enter(Lookup(c))
            ELSE Finish(c, assert_ok(code, NoResult))

\* JavaVM::create(opts), up to the answer of JNI_CreateJavaVM (op is create,
\* or create_with for the create it starts with)
CreateStep(op) ==
    /\ UNCHANGED <<refvars, argvars, auxvars>>
    /\ cur = Idle
    /\ probe' = NoProbe
    /\ UNCHANGED <<dead, table>>
    /\ \E options \in OptionLists :
        LET c == Call(op, "create", options, NULL,
                      IF vms = <<>> THEN "Uninitialized" ELSE "Created")
        IN  IF Rejected(options)
            THEN /\ Finish(c, Panic)
                 /\ trace' = <<>>
                 /\ UNCHANGED <<vms, held>>
            ELSE /\ trace' = <<"JNI_CreateJavaVM">>
                 /\ \E code \in JNI_CreateJavaVM_codes :
                     IF code = JNI_OK
                     THEN /\ vms' = Append(vms, FreshId)
                          /\ held' = held \cup {FreshId}
                          /\ IF op = "create"
                             THEN Finish(c, Ok(<<FreshId>>))
                             ELSE Enter([c EXCEPT !.stage = "body", !.pc = "body",
                                                  !.h = FreshId])
                     ELSE /\ UNCHANGED <<vms, held>>
                          /\ IF code = JNI_EEXIST THEN Enter(Lookup(c))
                             ELSE Finish(c, ExpectZero(assert_ok(code, NoResult)))

Create == CreateStep("create")

\* JavaVM::destroy(self) through handle h, the running call being c and
\* `before` the foreign calls it has made so far
DestroyStep(c, h, before) ==
    /\ UNCHANGED <<table, held>>
    /\ \E ub \in BOOLEAN :
        IF ~SlotPopulated(h, ub)
        THEN /\ trace' = Append(before, "lookup DestroyJavaVM")
             /\ Finish(c, Err(MissingFunction("DestroyJavaVM")))
             /\ UNCHANGED <<vms, dead>>
        ELSE /\ trace' = before \o <<"lookup DestroyJavaVM", "DestroyJavaVM">>
             /\ \E ans \in DestroyJavaVM_answers(h) :
                 IF ~ans.crash /\ ans.code = JNI_EEXIST
                 THEN /\ Enter(Lookup(c))
                      /\ UNCHANGED <<vms, dead>>
                 ELSE /\ Finish(c, destroy(ans))
                      /\ IF ~ans.crash /\ ans.code = JNI_OK
                         THEN /\ vms' = Remove(vms, h)
                              /\ dead' = dead \cup {h}
                         ELSE UNCHANGED <<vms, dead>>

Destroy ==
    /\ UNCHANGED <<refvars, argvars, auxvars>>
    /\ cur = Idle
    /\ probe' = NoProbe
    /\ \E h \in held :
        DestroyStep(Call("destroy", "destroy", <<h>>, h, Lifecycle(h)), h, <<>>)

\* JavaVM::create_with(opts, func), up to the answer of JNI_CreateJavaVM
CreateWith == CreateStep("create_with")

\* create_with's `func(jvm, jenv)`: the body returns a value, having left
\* the VM alone or destroyed it through its copy of the handle, or panics
CwBody ==
    /\ UNCHANGED <<refvars, argvars, auxvars>>
    /\ cur.pc = "body"
    /\ trace' = Append(trace, "func")
    /\ UNCHANGED <<table, held, probe>>
    /\ \/ /\ \E val \in BodyVals :
               cur' = [cur EXCEPT !.stage = "destroy", !.pc = "destroy", !.body = val]
          /\ \/ UNCHANGED <<vms, dead>>
             \/ /\ cur.h \in Range(vms) /\ table
                /\ vms' = Remove(vms, cur.h)
                /\ dead' = dead \cup {cur.h}
          /\ UNCHANGED res
       \/ /\ Finish(cur, Panic)
          /\ UNCHANGED <<vms, dead>>

\* create_with's `jvm.destroy()` after the body returned
CwDestroy ==
    /\ UNCHANGED <<refvars, argvars, auxvars>>
    /\ cur.pc = "destroy"
    /\ UNCHANGED probe
    /\ DestroyStep(cur, cur.h, trace)

\* the caller takes the outcome and goes on
Return ==
    /\ UNCHANGED <<refvars, argvars, auxvars>>
    /\ cur = Returned
    /\ cur' = Idle
    /\ res' = Outcome(Idle, NoResult)
    /\ trace' = <<>>
    /\ probe' = NoProbe
    /\ UNCHANGED <<vms, dead, table, held>>

(* ---------------------------- environment ----------------------------- *)
\* other native code of the process creates a VM of its own
ForeignSpawn ==
    /\ UNCHANGED <<refvars, argvars, auxvars>>
    /\ cur # Returned
    /\ FreshId \in VmIds
    /\ vms' = Append(vms, FreshId)
    /\ UNCHANGED <<dead, table, held, cur, res, trace, probe>>

\* other native code of the process destroys a VM of its own
ForeignGone ==
    /\ UNCHANGED <<refvars, argvars, auxvars>>
    /\ cur # Returned
    /\ \E v \in Range(vms) \ held :
        /\ vms' = Remove(vms, v)
        /\ dead' = dead \cup {v}
    /\ UNCHANGED <<table, held, cur, res, trace, probe>>

Next ==
    \/ CreatedJvms
    \/ ProbeStep
    \/ AssertOk
    \/ Create
    \/ Destroy
    \/ CreateWith
    \/ CwBody
    \/ CwDestroy
    \/ Return
    \/ ForeignSpawn
    \/ ForeignGone

Spec == Init /\ [][Next]_vars

(* ------------------------- reference ownership ------------------------ *)
\* the one polymorphic Java-type binding T of the model, and its Arc<T::IDs>
Desc == 1

GlobalRefOf(cell, t) ==
    [kind |-> "GlobalRef", cell |-> cell, desc |-> Desc, thread |-> t, env |-> NULL, id |-> 0]

GlobalObjOf(g, env, id) ==
    [kind |-> "GlobalObj", cell |-> g.cell, desc |-> g.desc, thread |-> env, env |-> env, id |-> id]

\* the state after JavaVM::create returned a handle and no reference exists
InitRefs ==
    /\ vms = <<1>>
    /\ dead = {}
    /\ table = TRUE
    /\ held = {1}
    /\ cur = Idle
    /\ res = Outcome(Idle, NoResult)
    /\ trace = <<>>
    /\ probe = NoProbe
    /\ NoRefs
    /\ NoArgs
    /\ NoAux

\* GlobalRef { jvm, obj: Arc::new(raw), desc, _phantom } on thread t: a new
\* cell, and one more owner of the descriptor
NewGlobalRef ==
    /\ cur = Idle
    /\ made < MaxCells
    /\ \E t \in Threads :
        owners' = owners \cup {GlobalRefOf(made + 1, t)}
    /\ made' = made + 1
    /\ strong' = [strong EXCEPT ![made + 1] = 1]
    /\ dstrong' = dstrong + 1
    /\ UNCHANGED <<lifevars, argvars, auxvars, cur, res, trace, probe>>

\* a variant of upgrade that copies the raw handle out of the cell instead
\* of cloning the Arc
UpgradeByCopy ==
    /\ cur = Idle
    /\ \E g \in owners, id \in 1..MaxObjs :
        /\ g.kind = "GlobalRef"
        /\ GlobalObjOf(g, g.thread, id) \notin owners
        /\ owners' = owners \cup {GlobalObjOf(g, g.thread, id)}
    /\ dstrong' = dstrong + 1
    /\ UNCHANGED <<lifevars, argvars, auxvars, cur, res, trace, probe, made, strong>>

\* GlobalRef::upgrade(&self, env) with the JniEnv of the reference's thread
Upgrade ==
    /\ cur = Idle
    /\ \E g \in owners, id \in 1..MaxObjs :
        /\ g.kind = "GlobalRef"
        /\ GlobalObjOf(g, g.thread, id) \notin owners
        /\ owners' = owners \cup {GlobalObjOf(g, g.thread, id)}
        /\ strong' = [strong EXCEPT ![g.cell] = @ + 1]
    /\ dstrong' = dstrong + 1
    /\ UNCHANGED <<lifevars, argvars, auxvars, cur, res, trace, probe, made>>

\* an owner goes out of scope: the drop glue of its two Arc fields (no Drop
\* impl exists for GlobalRef, GlobalObj or the cell, so no foreign call)
DropOwner ==
    /\ cur = Idle
    /\ \E o \in owners :
        /\ owners' = owners \ {o}
        /\ strong' = [strong EXCEPT ![o.cell] = @ - 1]
    /\ dstrong' = dstrong - 1
    /\ UNCHANGED <<lifevars, argvars, auxvars, cur, res, trace, probe, made>>

\* GlobalObj::downgrade(&self): todo!()
downgrade(b) == Panic

Downgrade ==
    /\ cur = Idle
    /\ \E b \in owners :
        /\ b.kind = "GlobalObj"
        /\ Finish(Call("downgrade", "", <<b.cell, b.desc>>, NULL, ""), downgrade(b))
    /\ trace' = <<>>
    /\ UNCHANGED <<lifevars, refvars, argvars, auxvars, probe>>

NextRefs ==
    \/ NewGlobalRef
    \/ Upgrade
    \/ DropOwner
    \/ Downgrade
    \/ Return

SpecRefs == InitRefs /\ [][NextRefs]_vars

(* ---------------------- created_jvms, running on ---------------------- *)
\* created_jvms alone, with the foreign runtime's VMs coming and going; a
\* call that has started keeps running (its next probe is made)
NextEnum ==
    \/ CreatedJvms
    \/ ProbeStep
    \/ Return
    \/ ForeignSpawn
    \/ ForeignGone

SpecEnum == Init /\ [][NextEnum]_vars /\ WF_vars(ProbeStep)

(* ----------------------- references and destroy ----------------------- *)
\* the reference operations together with JavaVM::destroy through the handle
\* that create returned
NextAfter ==
    \/ NewGlobalRef
    \/ Upgrade
    \/ DropOwner
    \/ Downgrade
    \/ Destroy
    \/ ProbeStep
    \/ Return

SpecAfter == InitRefs /\ [][NextAfter]_vars

(* ---------------------------- descriptors ----------------------------- *)
\* RichJavaType::descriptors(env) on thread t: the trait method is the
\* provider's, and nothing of the crate stands between the caller and it (no
\* cache, no once-cell).  The provider builds an instance, or hands out one
\* it built before.
Descriptors ==
    /\ cur = Idle
    /\ Len(trace) < MaxAsks
    /\ trace' = Append(trace, "T::descriptors")
    /\ \E t \in Threads :
        \/ /\ built' = built + 1
           /\ got' = [got EXCEPT ![t] = built + 1]
        \/ /\ \E d \in 1..built : got' = [got EXCEPT ![t] = d]
           /\ UNCHANGED built
    /\ UNCHANGED <<lifevars, refvars, argvars, vals, cur, res, probe>>

\* GlobalRef { jvm, obj: Arc::new(raw), desc, _phantom } on thread t, desc
\* being the Arc<T::IDs> the thread got from T::descriptors
NewGlobalRefWith ==
    /\ cur = Idle
    /\ made < MaxCells
    /\ \E t \in Threads :
        /\ got[t] # 0
        /\ owners' = owners \cup {[GlobalRefOf(made + 1, t) EXCEPT !.desc = got[t]]}
        /\ dstrong' = IF got[t] = Desc THEN dstrong + 1 ELSE dstrong
    /\ made' = made + 1
    /\ strong' = [strong EXCEPT ![made + 1] = 1]
    /\ UNCHANGED <<lifevars, argvars, built, got, vals, cur, res, trace, probe>>

NextDesc ==
    \/ Descriptors
    \/ NewGlobalRefWith

SpecDesc == InitRefs /\ [][NextDesc]_vars

(* ------------------------------ threads ------------------------------- *)
\* The types of the crate by their fields, as the compiler sees them when it
\* derives the auto traits Send and Sync.  T and T::IDs are taken to be Send
\* and Sync themselves.
Structs ==
    {"JavaVM", "JniEnv", "GlobalRef", "LocalRef", "AutoRef",
     "GlobalObj", "LocalObj", "AutoObj", "VmOptions", "JniVersion"}

Fields(ty) ==
    CASE ty = "JavaVM" -> {"NonNull"}
      [] ty = "JniEnv" -> {"NonNull", "PhantomData<&()>"}
      [] ty = "GlobalRef" -> {"JavaVM", "Arc<RawJObject>", "Arc<T::IDs>", "PhantomData<T>"}
      [] ty = "LocalRef" -> {"RawJObject", "PhantomData<*const T>"}
      [] ty = "AutoRef" -> {"RawJObject", "PhantomData<*const T>"}
      [] ty = "GlobalObj" -> {"JniEnv", "Arc<RawJObject>", "Arc<T::IDs>", "PhantomData<&T>"}
      [] ty = "LocalObj" -> {"JniEnv", "RawJObject", "Arc<T::IDs>", "PhantomData<&T>"}
      [] ty = "AutoObj" -> {"JniEnv", "RawJObject", "Arc<T::IDs>", "PhantomData<&T>"}
      [] ty = "VmOptions" -> {"JniVersion", "Vec<Cow<str>>", "bool"}
      [] ty = "JniVersion" -> {"u16"}
      [] ty = "RawJObject" -> {"NonNull"}
      [] OTHER -> {}

\* T: Sync
RECURSIVE Sync(_)
Sync(ty) ==
    CASE ty \in {"NonNull", "*const T"} -> FALSE
      [] ty \in {"T", "T::IDs", "()", "u16", "bool", "Vec<Cow<str>>"} -> TRUE
      [] ty = "Arc<RawJObject>" -> FALSE
      [] ty = "Arc<T::IDs>" -> TRUE
      [] ty = "PhantomData<T>" -> Sync("T")
      [] ty = "PhantomData<&T>" -> Sync("T")
      [] ty = "PhantomData<&()>" -> Sync("()")
      [] ty = "PhantomData<*const T>" -> Sync("*const T")
      [] OTHER -> \A f \in Fields(ty) : Sync(f)

\* T: Send (Arc<X> is Send when X is Send and Sync, &X when X is Sync)
RECURSIVE Send(_)
Send(ty) ==
    CASE ty \in {"NonNull", "*const T"} -> FALSE
      [] ty \in {"T", "T::IDs", "()", "u16", "bool", "Vec<Cow<str>>"} -> TRUE
      [] ty = "Arc<RawJObject>" -> Send("RawJObject") /\ Sync("RawJObject")
      [] ty = "Arc<T::IDs>" -> Send("T::IDs") /\ Sync("T::IDs")
      [] ty = "PhantomData<T>" -> Send("T")
      [] ty = "PhantomData<&T>" -> Sync("T")
      [] ty = "PhantomData<&()>" -> Sync("()")
      [] ty = "PhantomData<*const T>" -> Send("*const T")
      [] OTHER -> \A f \in Fields(ty) : Send(f)

\* a value of the crate: where it was produced, and the thread that has it
Value(kind, home, at) == [kind |-> kind, home |-> home, at |-> at]

\* a value is produced on thread t: by create or created_jvms (JavaVM,
\* JniEnv), by VmOptions::new, or by wrapper code (the references)
Produce ==
    /\ Cardinality(vals) < MaxVals
    /\ \E kind \in Structs, t \in Threads :
        vals' = vals \cup {Value(kind, t, t)}
    /\ UNCHANGED <<lifevars, refvars, argvars, built, got, cur, res, trace, probe>>

\* a value is moved into a closure or a channel of another thread: the
\* program compiles only when the value's type is Send
MoveTo ==
    /\ \E v \in vals, t \in Threads :
        /\ t # v.at
        /\ Send(v.kind)
        /\ vals' = (vals \ {v}) \cup {Value(v.kind, v.home, t)}
    /\ UNCHANGED <<lifevars, refvars, argvars, built, got, cur, res, trace, probe>>

\* a shared borrow of a value is used by another thread: the program
\* compiles only when the value's type is Sync
ShareWith ==
    /\ Cardinality(vals) < MaxVals
    /\ \E v \in vals, t \in Threads :
        /\ t # v.at
        /\ Sync(v.kind)
        /\ vals' = vals \cup {Value(v.kind, v.home, t)}
    /\ UNCHANGED <<lifevars, refvars, argvars, built, got, cur, res, trace, probe>>

\* a value goes out of scope
Forget ==
    /\ \E v \in vals : vals' = vals \ {v}
    /\ UNCHANGED <<lifevars, refvars, argvars, built, got, cur, res, trace, probe>>

NextThreads ==
    \/ Produce
    \/ MoveTo
    \/ ShareWith
    \/ Forget

SpecThreads == Init /\ [][NextThreads]_vars

(* ---------------------------- default_args ---------------------------- *)
n_options == 64

JniVersion(major, minor) == [major |-> major, minor |-> minor]

V1_8 == JniVersion(1, 8)

V10 == JniVersion(10, 0)

\* ((self.major as u32) << 16) | (self.minor as u32)
as_native(v) == v.major * 65536 + v.minor

\* major: (n & 0xFFFF0000 >> 16) as u16, minor: (n & 0x0000FFFF >> 0) as u16;
\* `>>` binds tighter than `&`, so both masks are 0x0000FFFF
from_native(n) == [major |-> (n % 65536) % 65536, minor |-> (n % 65536) % 65536]

j2r_bool(val) == val # 0

\* a JavaVMOption: its optionString is null, or the bytes of a C string
empty_option == [null |-> TRUE, bytes |-> <<>>]

OptionOf(bytes) == [null |-> FALSE, bytes |-> bytes]

\* "-Xrs", "-Da=b", "-" followed by the two-byte form of U+0000, and two
\* strings that are not CESU-8: half a surrogate pair, and a stray 0xFF
B_Xrs == <<45, 88, 114, 115>>

B_Da == <<45, 68, 97, 61, 98>>

B_Nul == <<45, 192, 128>>

B_HalfPair == <<45, 237, 160, 128>>

B_Stray == <<255>>

AsciiChar(b) ==
    CASE b = 45 -> "-" [] b = 61 -> "=" [] b = 68 -> "D" [] b = 88 -> "X"
      [] b = 97 -> "a" [] b = 98 -> "b" [] b = 114 -> "r" [] b = 115 -> "s"
      [] OTHER -> "?"

\* cesu8::from_java_cesu8 on the byte strings above: ASCII bytes are their
\* characters, 0xC0 0x80 is U+0000, anything else here is malformed
RECURSIVE from_java_cesu8(_)
from_java_cesu8(bytes) ==
    IF bytes = <<>> THEN [ok |-> TRUE, text |-> <<>>]
    ELSE IF bytes[1] < 128
    THEN LET rest == from_java_cesu8(Tail(bytes))
         IN  [ok |-> rest.ok, text |-> <<AsciiChar(bytes[1])>> \o rest.text]
    ELSE IF bytes[1] = 192 /\ Len(bytes) >= 2 /\ bytes[2] = 128
    THEN LET rest == from_java_cesu8(Tail(Tail(bytes)))
         IN  [ok |-> rest.ok, text |-> <<"NUL">> \o rest.text]
    ELSE [ok |-> FALSE, text |-> <<>>]

\* the foreign JNI_GetDefaultJavaVMInitArgs(&args) answering JNI_OK: it
\* writes the first args.nOptions of its options into the buffer and sets
\* args.nOptions to their true count
JNI_GetDefaultJavaVMInitArgs(options, list) ==
    [nOptions |-> Len(list),
     options |-> [i \in 1..Len(options) |-> IF i <= Len(list) THEN list[i] ELSE options[i]],
     version |-> fargs.version,
     ignoreUnrecognized |-> fargs.ignoreUnrecognized]

\* the `.collect::<Result<Vec<String>, Cesu8DecodingError>>()?` of the texts
Collect(os) ==
    LET decoded == [i \in 1..Len(os) |-> from_java_cesu8(os[i].bytes)]
    IN  IF \E i \in 1..Len(os) : ~decoded[i].ok THEN Err(VmError("BadCesu8String"))
        ELSE Ok([i \in 1..Len(os) |-> decoded[i].text])

\* a variant of default_args without the capacity assertion: it reads as
\* many options as the buffer holds
default_args_truncating(code, list) ==
    LET options == [i \in 1..n_options |-> empty_option]
        r == ExpectZero(assert_ok(code, NoResult))
        args == JNI_GetDefaultJavaVMInitArgs(options, list)
        n == IF args.nOptions <= n_options THEN args.nOptions ELSE n_options
        texts == Collect(SelectSeq(SubSeq(args.options, 1, n), LAMBDA o : ~o.null))
    IN  IF r.kind # "Ok" THEN [result |-> r, opts |-> NoOpts]
        ELSE IF texts.kind # "Ok" THEN [result |-> texts, opts |-> NoOpts]
        ELSE [result |-> texts,
              opts |-> [version |-> from_native(args.version),
                        options |-> texts.val,
                        ignore_unrecognized |-> j2r_bool(args.ignoreUnrecognized)]]

\* JavaVM::default_args once the foreign call answered `code` (no JNI_EEXIST)
default_args(code, list) ==
    LET options == [i \in 1..n_options |-> empty_option]
        r == ExpectZero(assert_ok(code, NoResult))
        args == JNI_GetDefaultJavaVMInitArgs(options, list)
    IN  IF r.kind # "Ok" THEN [result |-> r, opts |-> NoOpts]
        ELSE IF ~(args.nOptions <= n_options) THEN [result |-> Panic, opts |-> NoOpts]
        ELSE LET texts == Collect(SelectSeq(SubSeq(args.options, 1, args.nOptions),
                                            LAMBDA o : ~o.null))
             IN  IF texts.kind # "Ok" THEN [result |-> texts, opts |-> NoOpts]
                 ELSE [result |-> texts,
                       opts |-> [version |-> from_native(args.version),
                                 options |-> texts.val,
                                 ignore_unrecognized |-> j2r_bool(args.ignoreUnrecognized)]]

GoodOptions == <<OptionOf(B_Xrs), OptionOf(B_Da), OptionOf(B_Nul)>>

OddOptions == {OptionOf(B_HalfPair), OptionOf(B_Stray), empty_option}

\* the true option counts of the model: a few, and those around the capacity
DefaultCounts == (0..2) \cup ((n_options - 2)..MaxDefaults)

\* the option lists of the foreign runtime: n well-formed options, one of
\* them (the first or the last) possibly malformed or with a null string;
\* and the buffer as a runtime that writes nothing into it leaves it
DefaultLists ==
    {[i \in 1..n |-> GoodOptions[((i + seed) % 3) + 1]] : n \in DefaultCounts, seed \in 0..1}
    \cup {[i \in 1..n |-> IF i = 1 THEN odd ELSE GoodOptions[(i % 3) + 1]] :
            n \in DefaultCounts \ {0}, odd \in OddOptions}
    \cup {[i \in 1..n |-> IF i = n THEN odd ELSE GoodOptions[(i % 3) + 1]] :
            n \in DefaultCounts \ {0}, odd \in OddOptions}
    \cup {[i \in 1..n_options |-> empty_option]}

\* the version word and the jboolean the foreign runtime writes
ForeignArgs ==
    {[version |-> as_native(V1_8), ignoreUnrecognized |-> 0],
     [version |-> as_native(V10), ignoreUnrecognized |-> 1],
     [version |-> as_native(V10), ignoreUnrecognized |-> 2]}

InitArgs ==
    /\ vms = <<>>
    /\ dead = {}
    /\ table = TRUE
    /\ held = {}
    /\ cur = Idle
    /\ res = Outcome(Idle, NoResult)
    /\ trace = <<>>
    /\ probe = NoProbe
    /\ NoRefs
    /\ NoAux
    /\ defaults \in DefaultLists
    /\ fargs \in ForeignArgs
    /\ opts = NoOpts

\* JavaVM::default_args(target_version), up to the answer of the foreign call
DefaultArgs ==
    /\ cur = Idle
    /\ trace' = <<"JNI_GetDefaultJavaVMInitArgs">>
    /\ probe' = NoProbe
    /\ UNCHANGED <<lifevars, refvars, auxvars, defaults, fargs>>
    /\ \E target \in {V1_8, V10}, code \in Codes :
        LET c == Call("default_args", "", <<as_native(target), code>>, NULL, "")
            r == default_args(code, defaults)
        IN  IF code = JNI_EEXIST
            THEN /\ Enter(Lookup(c))
                 /\ opts' = NoOpts
            ELSE /\ Finish(c, r.result)
                 /\ opts' = r.opts

NextArgs ==
    \/ DefaultArgs
    \/ ProbeStep
    \/ Return

SpecArgs == InitArgs /\ [][NextArgs]_vars

(* ------------------------------ VmOptions ------------------------------ *)
\* VmOptions::new(version)
VmOptions_new(version) ==
    [version |-> version, options |-> <<>>, ignore_unrecognized |-> FALSE]

\* a variant of push_property that leaves out an entry already in the list
push_property_once(self, name, value) ==
    LET entry == <<"-", "D">> \o name \o <<"=">> \o value
    IN  IF \E i \in 1..Len(self.options) : self.options[i] = entry THEN self
        ELSE [self EXCEPT !.options = Append(@, entry)]

\* VmOptions::push_property(&mut self, name, value):
\* self.options.push(Cow::from(format!("-D{}={}", name, value)))
push_property(self, name, value) ==
    [self EXCEPT !.options = Append(@, <<"-", "D">> \o name \o <<"=">> \o value)]

\* VmOptions::replace_options(&mut self, opts)
replace_options(self, options) == [self EXCEPT !.options = options]

\* VmOptions::allow_unrecognized_options(&mut self, allow)
allow_unrecognized_options(self, allow) == [self EXCEPT !.ignore_unrecognized = allow]

PropertyNames == {<<"a">>, <<"k", "=">>}

PropertyValues == {<<>>, <<"b">>}

InitOpts ==
    /\ vms = <<>>
    /\ dead = {}
    /\ table = TRUE
    /\ held = {}
    /\ cur = Idle
    /\ res = Outcome(Idle, NoResult)
    /\ trace = <<>>
    /\ probe = NoProbe
    /\ NoRefs
    /\ NoAux
    /\ defaults = <<>>
    /\ fargs = [version |-> 0, ignoreUnrecognized |-> 0]
    /\ opts \in {VmOptions_new(V1_8), VmOptions_new(V10)}

PushProperty ==
    /\ cur = Idle
    /\ Len(opts.options) < MaxPush
    /\ \E name \in PropertyNames, value \in PropertyValues :
        /\ Finish(Call("push_property", "", <<name, value>>, NULL, ""), Ok(<<>>))
        /\ opts' = push_property(opts, name, value)
    /\ trace' = <<>>
    /\ UNCHANGED <<lifevars, refvars, auxvars, defaults, fargs, probe>>

ReplaceOptions ==
    /\ cur = Idle
    /\ \E options \in {<<>>, <<S_Xrs>>, <<S_Xrs, <<"-", "D", "a", "=", "b">>>>} :
        /\ Finish(Call("replace_options", "", options, NULL, ""), Ok(<<>>))
        /\ opts' = replace_options(opts, options)
    /\ trace' = <<>>
    /\ UNCHANGED <<lifevars, refvars, auxvars, defaults, fargs, probe>>

AllowUnrecognizedOptions ==
    /\ cur = Idle
    /\ \E allow \in BOOLEAN :
        /\ Finish(Call("allow_unrecognized_options", "", <<allow>>, NULL, ""), Ok(<<>>))
        /\ opts' = allow_unrecognized_options(opts, allow)
    /\ trace' = <<>>
    /\ UNCHANGED <<lifevars, refvars, auxvars, defaults, fargs, probe>>

NextOpts ==
    \/ PushProperty
    \/ ReplaceOptions
    \/ AllowUnrecognizedOptions
    \/ Return

SpecOpts == InitOpts /\ [][NextOpts]_vars

(* ----------------------------- native names --------------------------- *)
Lower ==
    <<"a", "b", "c", "d", "e", "f", "g", "h", "i", "j", "k", "l", "m",
      "n", "o", "p", "q", "r", "s", "t", "u", "v", "w", "x", "y", "z">>

Upper ==
    <<"A", "B", "C", "D", "E", "F", "G", "H", "I", "J", "K", "L", "M",
      "N", "O", "P", "Q", "R", "S", "T", "U", "V", "W", "X", "Y", "Z">>

Digits == <<"0", "1", "2", "3", "4", "5", "6", "7", "8", "9">>

IndexIn(seq, c) == CHOOSE i \in 1..Len(seq) : seq[i] = c

\* `c as u32`: SUP2 is U+00B2 (superscript two), EMOJI is U+1F600
CodePoint(c) ==
    CASE c \in Range(Lower) -> 96 + IndexIn(Lower, c)
      [] c \in Range(Upper) -> 64 + IndexIn(Upper, c)
      [] c \in Range(Digits) -> 47 + IndexIn(Digits, c)
      [] c = "$" -> 36
      [] c = "/" -> 47
      [] c = ";" -> 59
      [] c = "[" -> 91
      [] c = "_" -> 95
      [] c = "SUP2" -> 178
      [] c = "EMOJI" -> 128512

\* char::is_numeric: the Unicode categories Nd, Nl and No
is_numeric(c) == c \in Range(Digits) \/ c = "SUP2"

is_ascii_alphanumeric(c) ==
    LET n == CodePoint(c)
    IN  (48 <= n /\ n <= 57) \/ (65 <= n /\ n <= 90) \/ (97 <= n /\ n <= 122)

HexDigits ==
    <<"0", "1", "2", "3", "4", "5", "6", "7", "8", "9", "a", "b", "c", "d", "e", "f">>

\* format!("_0{:04x}", c as u16)
EscapeOther(c) ==
    LET n == CodePoint(c) % 65536
    IN  <<"_", "0", HexDigits[((n \div 4096) % 16) + 1], HexDigits[((n \div 256) % 16) + 1],
          HexDigits[((n \div 16) % 16) + 1], HexDigits[(n % 16) + 1]>>

\* _native_name's inner escape: the loop over s.chars() from character i on,
\* with `result` as built so far
RECURSIVE EscapeFrom(_, _, _)
EscapeFrom(s, i, result) ==
    IF i > Len(s) THEN [some |-> TRUE, text |-> result]
    ELSE LET c == s[i]
         IN  CASE c = "/" -> EscapeFrom(s, i + 1, result \o <<"_">>)
               [] c = "_" -> EscapeFrom(s, i + 1, result \o <<"_", "1">>)
               [] c = ";" -> EscapeFrom(s, i + 1, result \o <<"_", "2">>)
               [] c = "[" -> EscapeFrom(s, i + 1, result \o <<"_", "3">>)
               [] OTHER ->
                    IF is_numeric(c) /\ result # <<>> /\ result[Len(result)] = "_"
                    THEN [some |-> FALSE, text |-> <<>>]
                    ELSE IF is_ascii_alphanumeric(c)
                    THEN EscapeFrom(s, i + 1, result \o <<c>>)
                    ELSE EscapeFrom(s, i + 1, result \o EscapeOther(c))

escape(s) == EscapeFrom(s, 1, <<>>)

None == [some |-> FALSE, text |-> <<>>]

Some(s) == [some |-> TRUE, text |-> s]

NativeEscapeError == [chain |-> <<"NativeEscapeError">>, vm |-> NULL, name |-> ""]

S_Java == <<"J", "a", "v", "a", "_">>

\* a variant of _native_name that joins the signature with a single "_"
_native_name_single(class, method, overload_signature) ==
    LET cls == escape(class)
        meth == escape(method)
        os == IF overload_signature.some THEN escape(overload_signature.text) ELSE None
    IN  IF ~cls.some \/ ~meth.some \/ (overload_signature.some /\ ~os.some)
        THEN Err(NativeEscapeError)
        ELSE IF overload_signature.some
        THEN Ok(S_Java \o cls.text \o <<"_">> \o meth.text \o <<"_">> \o os.text)
        ELSE Ok(S_Java \o cls.text \o <<"_">> \o meth.text)

\* _native_name(class, method, overload_signature)
_native_name(class, method, overload_signature) ==
    LET cls == escape(class)
        meth == escape(method)
        os == IF overload_signature.some THEN escape(overload_signature.text) ELSE None
    IN  IF ~cls.some \/ ~meth.some \/ (overload_signature.some /\ ~os.some)
        THEN Err(NativeEscapeError)
        ELSE IF overload_signature.some
        THEN Ok(S_Java \o cls.text \o <<"_">> \o meth.text \o <<"_", "_">> \o os.text)
        ELSE Ok(S_Java \o cls.text \o <<"_">> \o meth.text)

NameChars == {"p", "A", "1", "/", "_", ";", "[", "$", "SUP2", "EMOJI"}

Strs(n) == UNION {[1..k -> NameChars] : k \in 0..n}

\* the inputs of the crate's test native_names
S_pqrA == <<"p", "/", "q", "/", "r", "/", "A">>

S_sig ==
    <<"I", "L", "j", "a", "v", "a", "/", "l", "a", "n", "g", "/",
      "S", "t", "r", "i", "n", "g", ";">>

ClassNames == Strs(MaxLen) \cup {S_pqrA}

MethodNames == Strs(1) \cup {<<"f">>}

Signatures == {None} \cup {Some(t) : t \in Strs(1) \cup {S_sig}}

\* a call of _native_name
NativeName ==
    /\ cur = Idle
    /\ \E class \in ClassNames, method \in MethodNames, sig \in Signatures :
        Finish(Call("_native_name", "", <<class, method, sig>>, NULL, ""),
               _native_name(class, method, sig))
    /\ trace' = <<>>
    /\ UNCHANGED <<lifevars, refvars, argvars, auxvars, probe>>

NextNames ==
    \/ NativeName
    \/ Return

SpecNames == Init /\ [][NextNames]_vars

(* ============================== claims ================================ *)
Has(tr, e) == \E i \in 1..Len(tr) : tr[i] = e

Count(tr, e) == Cardinality({i \in 1..Len(tr) : tr[i] = e})

Last(s) == s[Len(s)]

\* the call of the last operation has come back (or panicked)
Done(op) == cur = Returned /\ res.op = op

\* an options value with an entry naming vfprintf, exit or abort
NamesAlternate(options) ==
    \E i \in 1..Len(options) :
        options[i] \in {<<"v", "f", "p", "r", "i", "n", "t", "f">>,
                        <<"e", "x", "i", "t">>,
                        <<"a", "b", "o", "r", "t">>}

\* create has come back from a call made, with options it accepts, while a
\* runtime instance was alive
CreatedWhileAlive ==
    Done("create") /\ res.was = "Created" /\ ~NamesAlternate(res.arg)

\* C1: the first destroy of a created runtime returns Ok and leaves it
\* Destroyed (the foreign call answering JNI_OK); every later destroy through
\* the same handle returns the Detached error and is rejected by this layer
\* without a second foreign DestroyJavaVM call.
C1_DestroyOnce ==
    Done("destroy") =>
        /\ (res.was = "Created" /\ Has(trace, "DestroyJavaVM") /\ res.kind = "Ok")
              => Lifecycle(res.arg[1]) = "Destroyed"
        /\ res.was = "Destroyed" =>
              /\ res.kind = "Err"
              /\ res.err.chain = <<"Detached">>
              /\ ~Has(trace, "DestroyJavaVM")

\* the variant assert_ok gives for an error constant other than JNI_EEXIST
VariantOf(code) ==
    CASE code = JNI_ERR -> "Unknown"
      [] code = JNI_EDETACHED -> "Detached"
      [] code = JNI_EVERSION -> "BadVersion"
      [] code = JNI_ENOMEM -> "NotEnoughMemory"
      [] code = JNI_EINVAL -> "InvalidArguments"
      [] OTHER -> "?"

\* what the error of a call that ended in a created_jvms lookup carries: the
\* first entry of the list of the last probe, or that probe's error
CarriesLookup(e) ==
    /\ e.chain[1] = "VMExists"
    /\ Last(e.chain) = "VMExists" =>
          /\ probe.code = JNI_OK
          /\ probe.seen # <<>>
          /\ e.vm = probe.seen[1]
    /\ Last(e.chain) # "VMExists" =>
          /\ Len(e.chain) >= 2
          /\ Last(e.chain) = VariantOf(probe.code)

\* a lookup panics when it finds no VM or the probe answers an unknown code
LookupPanics ==
    \/ probe.code = JNI_OK /\ probe.seen = <<>>
    \/ probe.code \notin ErrorCodes \cup {JNI_OK}

\* C2 (as claimed): the error create returns while a runtime instance is
\* alive is VMExists, and its nested lookup, when successful, equals the
\* list created_jvms gives in that state.
C2_NestedEqualsList ==
    (CreatedWhileAlive /\ res.kind = "Err") =>
        /\ res.err.chain[1] = "VMExists"
        /\ Last(res.err.chain) = "VMExists" => <<res.err.vm>> = probe.seen

\* C2 (amended): create while a runtime instance is alive never returns Ok and
\* creates no instance; it fails with VMExists carrying the first entry of
\* the list created_jvms got (or, nested, the lookup's error), or it panics
\* when the lookup does.
C2_CreateWhileAlive ==
    CreatedWhileAlive =>
        /\ res.kind \in {"Err", "Panic"}
        /\ trace # <<>> /\ trace[1] = "JNI_CreateJavaVM"
        /\ Count(trace, "JNI_CreateJavaVM") = 1
        /\ \A v \in held : v \in Range(vms) => v \in Range(probe.seen)
        /\ res.kind = "Err" => CarriesLookup(res.err)
        /\ res.kind = "Panic" => LookupPanics

C2_Witness ==
    /\ CreatedWhileAlive
    /\ res.kind = "Err" /\ res.err.chain = <<"VMExists">>
    /\ Len(probe.seen) >= 2

C6_EnumerationComplete ==
    (Done("created_jvms") /\ res.kind = "Ok") =>
        /\ probe.code = JNI_OK
        /\ Len(res.val) = probe.trueLen
        /\ probe.bufLen >= probe.trueLen
        /\ res.val = probe.seen
        /\ res.val = vms

\* a regrown buffer, and a true count that fell before the second probe
C6_Witness ==
    /\ Done("created_jvms") /\ res.kind = "Ok"
    /\ probe.n >= 2
    /\ Len(res.val) >= 2
    /\ probe.bufLen > probe.trueLen

\* C3: the foreign "delete global reference" operation is invoked exactly
\* once per Global Reference, after its last owner was dropped: never while
\* the cell's strong count is above zero, and once when it has reached zero.
C3_DeleteOnceAtZero ==
    Count(trace, "DeleteGlobalRef") = Cardinality({c \in 1..made : strong[c] = 0})

\* C4: downgrade(upgrade(r, env)) completes and gives a Global Reference
\* with r's Raw Object Handle and r's Descriptor.
C4_RoundTrip ==
    Done("downgrade") =>
        /\ res.kind = "Ok"
        /\ res.val = res.arg

\* C11: Destroyed is terminal, and once the owning runtime is destroyed every
\* operation on its handles and references is rejected rather than
\* performed: no upgrade yields a Bound Global Object, and a destroy through
\* a copy of the handle makes no foreign DestroyJavaVM call.
C11_NoUseAfterDestroy ==
    [][(\E h \in held : h \in dead) =>
          /\ dead \subseteq dead'
          /\ ~(\E o \in owners' \ owners : o.kind = "GlobalObj")
          /\ Has(trace', "DestroyJavaVM") => trace' = trace]_vars

\* C12: the descriptor of a type binding is resolved at most once per
\* process: the provider is asked to build it once, by the first thread that
\* needs it, and every thread and every Global Reference of the type shares
\* that one Descriptor instance.
C12_ResolvedOnce ==
    /\ Count(trace, "T::descriptors") <= 1
    /\ built <= 1
    /\ \A t \in Threads : got[t] \in {0, 1}
    /\ \A o \in owners : o.desc = 1

\* the types bound to the thread that produced them
ThreadBound == {"LocalRef", "AutoRef", "LocalObj", "AutoObj", "GlobalObj", "JniEnv"}

\* a value of this kind can be used from a thread other than its own: it can
\* be moved or shared there, or (a JavaVM) obtained there from created_jvms
UsableElsewhere(kind) == Send(kind) \/ Sync(kind) \/ kind = "JavaVM"

\* C13: a Local or Auto Reference, its Bound Object form and an Environment
\* Handle are never held by a thread other than the one that produced them,
\* whereas Runtime Handles and Global References may be used from any thread.
C13_ThreadBound ==
    /\ \A v \in vals : v.kind \in ThreadBound => v.at = v.home
    /\ \A v \in vals : v.kind \in {"JavaVM", "GlobalRef"} => UsableElsewhere(v.kind)

\* the characters C14 speaks of
Alphanumerics ==
    {"a", "b", "c", "d", "e", "f", "g", "h", "i", "j", "k", "l", "m", "n", "o", "p", "q",
     "r", "s", "t", "u", "v", "w", "x", "y", "z", "A", "B", "C", "D", "E", "F", "G", "H",
     "I", "J", "K", "L", "M", "N", "O", "P", "Q", "R", "S", "T", "U", "V", "W", "X", "Y",
     "Z", "0", "1", "2", "3", "4", "5", "6", "7", "8", "9"}

Covered(s) == \A i \in 1..Len(s) : s[i] \in Alphanumerics \cup {"/", "_", ";", "["}

\* C14's escape of one covered character
EscapedChar(c) ==
    CASE c = "/" -> <<"_">>
      [] c = "_" -> <<"_", "1">>
      [] c = ";" -> <<"_", "2">>
      [] c = "[" -> <<"_", "3">>
      [] OTHER -> <<c>>

RECURSIVE Escaped(_)
Escaped(s) == IF s = <<>> THEN <<>> ELSE EscapedChar(s[1]) \o Escaped(Tail(s))

\* a digit right after a '/': the one covered input escape has no result for
DigitAfterSlash(s) ==
    \E i \in 2..Len(s) :
        s[i - 1] = "/" /\ s[i] \in {"0", "1", "2", "3", "4", "5", "6", "7", "8", "9"}

\* C14: over class, method and signature made of '/', '_', ';', '[' and ASCII
\* alphanumerics, _native_name gives "Java_" + escape(class) + "_" +
\* escape(method), followed by "__" + escape(signature) exactly when a
\* signature is given, with escape mapping '/' to "_", '_' to "_1", ';' to
\* "_2", '[' to "_3" and keeping alphanumerics; it gives its error exactly
\* when a digit follows a '/' in one of them; ("p/q/r/A", "f") gives
\* "Java_p_q_r_A_f" and, with "ILjava/lang/String;",
\* "Java_p_q_r_A_f__ILjava_lang_String_2".
C14_NativeName ==
    Done("_native_name") =>
        LET class == res.arg[1]
            method == res.arg[2]
            sig == res.arg[3]
            refused == \/ DigitAfterSlash(class)
                       \/ DigitAfterSlash(method)
                       \/ sig.some /\ DigitAfterSlash(sig.text)
        IN  /\ res.kind \in {"Ok", "Err"}
            /\ (Covered(class) /\ Covered(method) /\ Covered(sig.text)) =>
                  /\ res.kind = "Err" <=> refused
                  /\ res.kind = "Ok" =>
                        res.val = <<"J", "a", "v", "a", "_">> \o Escaped(class) \o <<"_">>
                                  \o Escaped(method)
                                  \o (IF sig.some THEN <<"_", "_">> \o Escaped(sig.text)
                                      ELSE <<>>)
            /\ (class = <<"p", "/", "q", "/", "r", "/", "A">> /\ method = <<"f">>) =>
                  /\ ~sig.some =>
                        res.val = <<"J", "a", "v", "a", "_", "p", "_", "q", "_", "r", "_",
                                    "A", "_", "f">>
                  /\ sig = Some(S_sig) =>
                        res.val = <<"J", "a", "v", "a", "_", "p", "_", "q", "_", "r", "_",
                                    "A", "_", "f", "_", "_", "I", "L", "j", "a", "v", "a",
                                    "_", "l", "a", "n", "g", "_", "S", "t", "r", "i", "n",
                                    "g", "_", "2">>

C14_Witness ==
    /\ Done("_native_name") /\ res.kind = "Ok"
    /\ res.arg = <<S_pqrA, <<"f">>, Some(S_sig)>>
    /\ Len(res.val) = 36

\* C15: a push_property(name, value) call leaves the option list as it was,
\* in the same order, followed by the one entry "-D<name>=<value>", also when
\* an equal entry is already in the list, and leaves version and
\* ignore_unrecognized alone.
C15_PushAppends ==
    [][(cur = Idle /\ cur' = Returned /\ res'.op = "push_property") =>
          /\ Len(opts'.options) = Len(opts.options) + 1
          /\ \A i \in 1..Len(opts.options) : opts'.options[i] = opts.options[i]
          /\ opts'.options[Len(opts'.options)]
                = <<"-", "D">> \o res'.arg[1] \o <<"=">> \o res'.arg[2]
          /\ opts'.version = opts.version
          /\ opts'.ignore_unrecognized = opts.ignore_unrecognized]_vars

\* the entry pushed was in the list already
C15_Witness ==
    /\ Done("push_property")
    /\ Len(opts.options) = 3
    /\ opts.options[3] = <<"-", "D", "a", "=", "b">>
    /\ opts.options[2] = opts.options[3]
    /\ opts.ignore_unrecognized

\* a probe of created_jvms was followed by a retry of the same loop
Retried ==
    /\ cur.pc = "probe" /\ cur'.pc = "probe"
    /\ cur'.depth = cur.depth
    /\ probe'.n = probe.n + 1

\* a retry happens only when the probe's true count exceeds the buffer it was
\* made with, the buffer is regrown to exactly that count, and a retry after
\* the second probe of a loop means the true count changed between the two
RetryRule ==
    Retried =>
        /\ probe'.trueLen > probe'.bufLen
        /\ Len(cur'.buf) = probe'.trueLen
        /\ (probe.n >= 1 /\ probe.code = JNI_OK) => probe'.trueLen # probe.trueLen

\* C16 (as claimed): every call of created_jvms eventually returns Ok or Err
\* after finitely many probes, after at most two when the true count does not
\* change, and retries only on a true count above the buffer length,
\* regrowing the buffer to exactly that count.
C16_ReturnsOkOrErr ==
    /\ [](Done("created_jvms") => res.kind \in {"Ok", "Err"})
    /\ [][RetryRule]_vars
    /\ (cur.pc = "probe") ~> (cur = Returned)

\* C16 (amended): while the foreign runtime's true count stops growing and
\* its probes stop answering JNI_EEXIST, every call of created_jvms ends
\* after finitely many probes: it returns Ok or Err, or it panics when a
\* probe answers a non-zero code that is no error constant or a nested
\* lookup finds no VM; the retry rule is as claimed.
C16_LoopBounded ==
    /\ [](Done("created_jvms") =>
            /\ res.kind \in {"Ok", "Err", "Panic"}
            /\ res.kind = "Panic" => LookupPanics)
    /\ [][RetryRule]_vars
    /\ (cur.pc = "probe") ~> (cur = Returned)

\* three probes of one loop, the true count having grown between them
C16_Witness ==
    /\ Done("created_jvms") /\ res.kind = "Ok"
    /\ probe.n = 3
    /\ Count(trace, "JNI_GetCreatedJavaVMs") = 3
    /\ Len(res.val) = 3

\* the owners of the cell and of the descriptor are counted by the two Arcs
CountsMatch ==
    /\ \A c \in 1..made : strong[c] = Cardinality({o \in owners : o.cell = c})
    /\ dstrong = Cardinality(owners)

\* an upgrade: a Bound Global Object appears
UpgradeRule ==
    \A o \in owners' \ owners :
        o.kind = "GlobalObj" =>
            /\ trace' = trace
            /\ cur' = Idle /\ res' = res
            /\ owners \subseteq owners'
            /\ \E g \in owners :
                /\ g.kind = "GlobalRef"
                /\ g.cell = o.cell /\ g.desc = o.desc
                /\ o.env = g.thread
            /\ strong'[o.cell] = strong[o.cell] + 1
            /\ dstrong' = dstrong + 1

\* a Bound Global Object is dropped
DropRule ==
    \A o \in owners \ owners' :
        o.kind = "GlobalObj" =>
            /\ trace' = trace
            /\ strong'[o.cell] = strong[o.cell] - 1
            /\ dstrong' = dstrong - 1

\* C17: upgrade makes no foreign call and does not fail, leaves the Global
\* Reference as it is, and the Bound Global Object it returns holds the given
\* environment and shares the reference's cell and descriptor: each upgrade
\* raises the strong count of both by one, each drop of a Bound Object lowers
\* them by one.
C17_UpgradeShares ==
    /\ []CountsMatch
    /\ [][UpgradeRule /\ DropRule]_vars

\* one Global Reference upgraded twice
C17_Witness ==
    /\ \E g \in owners : g.kind = "GlobalRef" /\ g.cell = 1
    /\ Cardinality({o \in owners : o.kind = "GlobalObj" /\ o.cell = 1}) = 2
    /\ strong[1] = 3
    /\ trace = <<>>

\* the texts of the options with a string, in the foreign order
TextsOf(list) ==
    LET withString == SelectSeq(list, LAMBDA o : ~o.null)
    IN  [i \in 1..Len(withString) |-> from_java_cesu8(withString[i].bytes).text]

\* C7 (as claimed): default_args returns no Ok when the true option count
\* exceeds the capacity, and an Ok list holds one decoded string for each of
\* the true-count options, in the foreign order.
C7_OnePerOption ==
    Done("default_args") =>
        /\ Len(defaults) > n_options => res.kind # "Ok"
        /\ res.kind = "Ok" => Len(res.val) = Len(defaults)

\* C7 (amended): default_args returns no Ok when the true option count
\* exceeds the capacity of 64 (it panics once the foreign call answered
\* JNI_OK); an Ok list holds, in the foreign order, one decoded string for
\* each of the true-count options whose option string is not null.
C7_NoTruncation ==
    Done("default_args") =>
        /\ Len(defaults) > n_options => res.kind # "Ok"
        /\ (Len(defaults) > n_options /\ res.arg[2] = JNI_OK) => res.kind = "Panic"
        /\ res.kind = "Ok" =>
              /\ res.val = TextsOf(defaults)
              /\ opts.options = res.val
              /\ \A i \in 1..Len(defaults) :
                    ~defaults[i].null => from_java_cesu8(defaults[i].bytes).ok

C7_Witness ==
    /\ Done("default_args")
    /\ Len(defaults) > n_options
    /\ res.arg[2] = JNI_OK
    /\ res.kind = "Panic"

\* C18: the version encoding round-trips, from_native(as_native(v)) = v with
\* as_native(v) = major * 2^16 + minor, so that the version of the options
\* default_args returns has the major and minor the foreign runtime wrote
\* into the native version word.
C18_VersionRoundTrip ==
    (Done("default_args") /\ res.kind = "Ok") =>
        /\ opts.version.major = fargs.version \div 65536
        /\ opts.version.minor = fargs.version % 65536
        /\ as_native(opts.version) = fargs.version
        /\ as_native(from_native(res.arg[1])) = res.arg[1]

C9_MissingSlot ==
    /\ \A i \in 1..Len(trace) :
          trace[i] = "DestroyJavaVM" => i > 1 /\ trace[i - 1] = "lookup DestroyJavaVM"
    /\ (cur = Returned /\ res.kind = "Err" /\ res.err.chain = <<"MissingFunction">>) =>
          /\ res.err.name = "DestroyJavaVM"
          /\ Has(trace, "lookup DestroyJavaVM")
          /\ ~Has(trace, "DestroyJavaVM")
          /\ res.op = "destroy" => Lifecycle(res.arg[1]) = res.was
    /\ (Done("destroy") /\ res.was = "Created" /\ ~table) =>
          /\ res.kind = "Err"
          /\ res.err = MissingFunction("DestroyJavaVM")
          /\ Lifecycle(res.arg[1]) = "Created"

C9_Witness ==
    /\ Done("destroy") /\ res.was = "Created"
    /\ res.kind = "Err" /\ res.err.chain = <<"MissingFunction">>

\* C10: create panics on every options value with an entry naming vfprintf,
\* exit or abort, before any foreign call: JNI_CreateJavaVM is not invoked
\* and an Uninitialized lifecycle stays Uninitialized.
C10_RejectBeforeForeign ==
    (cur = Returned /\ res.op \in {"create", "create_with"} /\ NamesAlternate(res.arg)) =>
        /\ res.kind = "Panic"
        /\ trace = <<>>
        /\ res.was = "Uninitialized" => vms = <<>>

C10_Witness ==
    /\ Done("create") /\ res.kind = "Panic"
    /\ res.arg = <<S_Xrs, S_abort>>
    /\ res.was = "Uninitialized"

====
